---- MODULE Spec2Model ----
(***************************************************************************)
(* Network robustness simulation of ProjU3.py: simulate_attack (node       *)
(* removal, random or degree-targeted) and edge_overlap_removal (edge      *)
(* removal ranked by topological overlap), each tracking the size of the   *)
(* largest connected component after every removal.                        *)
(*                                                                         *)
(* A networkx graph is modelled by what the two functions read of it:      *)
(*   nodes : the sequence G.nodes() iterates (insertion order),            *)
(*   edges : the sequence G.edges() iterates, every undirected edge once,  *)
(*           as <<u, v>> with u not after v in the node order, grouped by  *)
(*           u in node order (self-loops <<u, u>> allowed).                *)
(* Node identifiers are integers; Python's u < v on identifiers is < here. *)
(* Fractions (x values, y values, overlap scores, remove_fraction) are     *)
(* pairs <<numerator, denominator>> compared by cross-multiplication.      *)
(***************************************************************************)
EXTENDS Integers, Sequences, FiniteSets, TLC

\* Largest number of nodes of the caller's graph.
MaxNodes == 3

\* Largest number of edges of the caller's graph.
MaxEdges == 3

\* The values of remove_fraction tried, all in (0, 1] and exact in binary
\* floating point, so that int(remove_fraction * N) is the exact floor.
RemoveFractions == {<<1, 4>>, <<1, 2>>, <<3, 4>>, <<1, 1>>}

\* The values of the strategy argument tried; "overlap" is not a strategy of
\* simulate_attack and takes its else branch.
Strategies == {"random", "targeted", "overlap"}

---------------------------------------------------------------------------
\* Sequences and fractions

Range(s) == {s[k] : k \in DOMAIN s}

IsInjective(s) == \A a, b \in DOMAIN s : s[a] = s[b] => a = b

Pos(s, e) == CHOOSE k \in DOMAIN s : s[k] = e

\* The elements of s that are in the set keep, in the order of s.
Filter(s, keep) ==
  LET F[k \in 0..Len(s)] ==
        IF k = 0 THEN <<>>
        ELSE IF s[k] \in keep THEN Append(F[k - 1], s[k]) ELSE F[k - 1]
  IN F[Len(s)]

\* a/b < c/d and a/b = c/d for fractions with positive denominators.
FracLess(p, q) == p[1] * q[2] < q[1] * p[2]

FracEq(p, q) == p[1] * q[2] = q[1] * p[2]

FracLeq(p, q) == p[1] * q[2] <= q[1] * p[2]

\* A variant of IntOfProduct that never plans fewer than one removal:
\* max(1, int(remove_fraction * count)).
IntOfProductAtLeastOne(f, count) ==
  IF (f[1] * count) \div f[2] < 1 THEN 1 ELSE (f[1] * count) \div f[2]

\* A variant of IntOfProduct that rounds to nearest, halves up, instead of
\* truncating.
IntOfProductRounded(f, count) == (2 * f[1] * count + f[2]) \div (2 * f[2])

\* Python's int(remove_fraction * count) for remove_fraction >= 0.
IntOfProduct(f, count) == (f[1] * count) \div f[2]

\* Python's sorted(s, key=..., reverse=...): a stable sort. keys[k] is the key
\* of s[k], a fraction. The elements are inserted one by one, each behind
\* every element it does not come strictly before, so that elements whose
\* keys tie keep the order they have in s, with and without reverse.
KeyBefore(keys, reverse, a, b) ==
  IF reverse THEN FracLess(keys[b], keys[a]) ELSE FracLess(keys[a], keys[b])

\* The index e inserted into the sorted sequence of indices t.
StableInsert(t, e, keys, reverse) ==
  LET p == Cardinality({j \in DOMAIN t : ~KeyBefore(keys, reverse, e, t[j])})
  IN SubSeq(t, 1, p) \o <<e>> \o SubSeq(t, p + 1, Len(t))

Sorted(s, keys, reverse) ==
  LET S[k \in 0..Len(s)] ==
        IF k = 0 THEN <<>> ELSE StableInsert(S[k - 1], k, keys, reverse)
  IN [k \in DOMAIN s |-> s[S[Len(s)][k]]]

---------------------------------------------------------------------------
\* The graph operations the two functions call

EmptyGraph == [nodes |-> <<>>, edges |-> <<>>]

NodeSet(g) == Range(g.nodes)

\* set(G.neighbors(u)): a self-loop makes u its own neighbour.
Neighbors(g, u) ==
  {e[2] : e \in {d \in Range(g.edges) : d[1] = u}}
    \cup {e[1] : e \in {d \in Range(g.edges) : d[2] = u}}

\* G.degree: the number of edge ends at u, a self-loop counting twice.
Degree(g, u) ==
  Cardinality({k \in DOMAIN g.edges : g.edges[k][1] = u})
    + Cardinality({k \in DOMAIN g.edges : g.edges[k][2] = u})

\* list(G.degree): (node, degree) pairs in node order.
DegreeView(g) == [k \in DOMAIN g.nodes |-> <<g.nodes[k], Degree(g, g.nodes[k])>>]

HasNode(g, n) == n \in NodeSet(g)

HasEdge(g, u, v) == <<u, v>> \in Range(g.edges) \/ <<v, u>> \in Range(g.edges)

\* A variant of RemoveNode that takes out the edges at n and leaves n.
RemoveNodeKeepNode(g, n) ==
  [nodes |-> g.nodes,
   edges |-> Filter(g.edges, {e \in Range(g.edges) : e[1] # n /\ e[2] # n})]

\* G.remove_node(n): the node and every edge incident to it.
RemoveNode(g, n) ==
  [nodes |-> Filter(g.nodes, NodeSet(g) \ {n}),
   edges |-> Filter(g.edges, {e \in Range(g.edges) : e[1] # n /\ e[2] # n})]

\* A variant of RemoveEdge that also drops the endpoints left without an edge.
RemoveEdgeAndIsolated(g, u, v) ==
  LET es == Filter(g.edges, Range(g.edges) \ {<<u, v>>, <<v, u>>})
      used == UNION {{e[1], e[2]} : e \in Range(es)}
  IN [nodes |-> Filter(g.nodes, NodeSet(g) \ ({u, v} \ used)), edges |-> es]

\* G.remove_edge(u, v): the edge only, both endpoints stay.
RemoveEdge(g, u, v) ==
  [nodes |-> g.nodes,
   edges |-> Filter(g.edges, Range(g.edges) \ {<<u, v>>, <<v, u>>})]

\* The nodes reachable from the set seen.
RECURSIVE Reach(_, _)
Reach(g, seen) ==
  LET next == seen \cup UNION {Neighbors(g, u) : u \in seen}
  IN IF next = seen THEN seen ELSE Reach(g, next)

\* nx.connected_components(G): the components, each a set of nodes; an
\* isolated node is a component of its own.
ConnectedComponents(g) == {Reach(g, {n}) : n \in NodeSet(g)}

\* A variant of LenMaxComponent that counts the components.
CountComponents(g) == Cardinality(ConnectedComponents(g))

\* A variant of LenMaxComponent that takes the smallest component.
LenMinComponent(g) ==
  LET sizes == {Cardinality(c) : c \in ConnectedComponents(g)}
  IN CHOOSE m \in sizes : \A k \in sizes : m <= k

\* len(max(nx.connected_components(G), key=len)), for a graph with a node.
LenMaxComponent(g) ==
  LET sizes == {Cardinality(c) : c \in ConnectedComponents(g)}
  IN CHOOSE m \in sizes : \A k \in sizes : k <= m

\* nx.is_connected(G), for a graph with a node.
IsConnected(g) == Reach(g, {g.nodes[1]}) = NodeSet(g)

---------------------------------------------------------------------------
\* The removal orders

\* The overlap of the edge (u, v): |N(u) & N(v)| / |N(u) | N(v)|, 0 when the
\* union is empty.
Overlap(g, u, v) ==
  LET common == Neighbors(g, u) \cap Neighbors(g, v)
      union == Neighbors(g, u) \cup Neighbors(g, v)
  IN IF union # {} THEN <<Cardinality(common), Cardinality(union)>> ELSE <<0, 1>>

\* (u, v) if u < v else (v, u)
EdgeKey(u, v) == IF u < v THEN <<u, v>> ELSE <<v, u>>

\* d[key] = val on a dict kept as its sequence of (key, value) items: a new
\* key goes last, a key already there keeps its place.
DictSet(d, key, val) ==
  IF \E k \in DOMAIN d : d[k][1] = key
    THEN [k \in DOMAIN d |-> IF d[k][1] = key THEN <<key, val>> ELSE d[k]]
    ELSE Append(d, <<key, val>>)

\* overlap_scores after the loop over G.edges().
OverlapScores(g) ==
  LET D[k \in 0..Len(g.edges)] ==
        IF k = 0 THEN <<>>
        ELSE DictSet(D[k - 1], EdgeKey(g.edges[k][1], g.edges[k][2]),
                     Overlap(g, g.edges[k][1], g.edges[k][2]))
  IN D[Len(g.edges)]

\* A variant of SortedEdges that gets the descending order by reversing the
\* ascending one, which turns the ties around.
SortedEdgesByReversal(g, asc) ==
  LET items == OverlapScores(g)
      up == Sorted(items, [k \in DOMAIN items |-> items[k][2]], FALSE)
  IN IF asc THEN up ELSE [k \in DOMAIN up |-> up[Len(up) + 1 - k]]

\* sorted(overlap_scores.items(), key=lambda x: x[1], reverse=not ascending)
SortedEdges(g, asc) ==
  LET items == OverlapScores(g)
  IN Sorted(items, [k \in DOMAIN items |-> items[k][2]], ~asc)

\* [n for n, _ in sorted(G.degree, key=lambda x: x[1], reverse=True)[:k]]
TargetedOrder(g, k) ==
  LET view == DegreeView(g)
      s == Sorted(view, [j \in DOMAIN view |-> <<view[j][2], 1>>], TRUE)
      m == IF k < Len(s) THEN k ELSE Len(s)
  IN [j \in 1..m |-> s[j][1]]

\* A variant of RandomSamples that draws with replacement.
RandomChoices(g, k) == [1..k -> NodeSet(g)]

\* The results random.sample(list(G.nodes()), k) can give, k <= len(G).
RandomSamples(g, k) == {s \in [1..k -> NodeSet(g)] : IsInjective(s)}

\* lcc of simulate_attack: 0 for the graph without nodes.
LccOfNodes(g) == IF Len(g.nodes) = 0 THEN 0 ELSE LenMaxComponent(g)

\* lcc of edge_overlap_removal, for a graph with a node.
LccOfEdges(g) == IF IsConnected(g) THEN Len(g.nodes) ELSE LenMaxComponent(g)

\* A variant of FractionRemoved that counts from 0: i / total.
FractionRemovedZeroBased(it, total) == <<it, total>>

\* (i + 1) / total, the x value appended in iteration i.
FractionRemoved(it, total) == <<it + 1, total>>

\* lcc / N, the y value appended.
FractionRemaining(lcc, n0) == <<lcc, n0>>

---------------------------------------------------------------------------
\* The state

VARIABLES
  heap,            \* the graph objects: "graph" the caller's, "copy" graph.copy()
  G,               \* the object the local name G is bound to, "none" outside a call
  pc,              \* "idle", "loop" (in the for loop), "returned", "raised"
  fn,              \* the function running: "simulate_attack", "edge_overlap_removal"
  strategy,        \* simulate_attack's strategy argument
  ascending,       \* edge_overlap_removal's ascending argument
  remove_fraction, \* the remove_fraction argument
  N,               \* len(G.nodes()) at the start of the call
  E,               \* len(G.edges()) at the start of the call
  num_remove,
  node_order,      \* simulate_attack's node_order
  sorted_edges,    \* edge_overlap_removal's sorted_edges, (key, score) items
  i,               \* the number of loop iterations done
  x_vals,
  y_vals,
  removed,         \* the targets the remove calls took out, in order
  skipped,         \* the iterations whose has_edge test failed
  exc              \* the exception raised, "none" if none

vars == <<heap, G, pc, fn, strategy, ascending, remove_fraction, N, E,
          num_remove, node_order, sorted_edges, i, x_vals, y_vals, removed,
          skipped, exc>>

\* A variant of CopyRef without the copy: G = graph.
AliasRef == "graph"

\* The object graph.copy() returns: a new one.
CopyRef == "copy"

\* The injective sequences over the set S.
Perms(S) == {s \in [1..Cardinality(S) -> S] : IsInjective(s)}

\* The n nodes 1..n in the iteration orders r+1, ..., n, 1, ..., r. The code
\* reads an identifier only to compare two of them (u < v, for the edge key),
\* and over these orders an edge is met from its smaller end and from its
\* larger end; which nodes are joined is chosen by position, in EdgeSeqs.
Rotations(n) ==
  IF n = 0 THEN {<<>>}
  ELSE {[k \in 1..n |-> ((k + r - 1) % n) + 1] : r \in 0..(n - 1)}

\* The node orders tried for a graph of at most MaxNodes nodes.
NodeSeqs == UNION {Rotations(n) : n \in 0..MaxNodes}

\* The orders G.edges() can iterate in over the node order nodes: each edge
\* once, from its endpoint that comes first in nodes, grouped by that endpoint.
EdgeSeqs(nodes) ==
  LET P == {<<nodes[a], nodes[b]>> : a, b \in DOMAIN nodes} \cap
             {p \in Range(nodes) \X Range(nodes) : Pos(nodes, p[1]) <= Pos(nodes, p[2])}
  IN UNION {{s \in [1..m -> P] :
               /\ IsInjective(s)
               /\ \A k \in 1..(m - 1) : Pos(nodes, s[k][1]) <= Pos(nodes, s[k + 1][1])}
            : m \in 0..MaxEdges}

Graphs == UNION {{[nodes |-> ns, edges |-> es] : es \in EdgeSeqs(ns)} : ns \in NodeSeqs}

Locals0 ==
  /\ G = "none"
  /\ pc = "idle"
  /\ fn = "none"
  /\ strategy = "none"
  /\ ascending = TRUE
  /\ remove_fraction = <<1, 1>>
  /\ N = 0
  /\ E = 0
  /\ num_remove = 0
  /\ node_order = <<>>
  /\ sorted_edges = <<>>
  /\ i = 0
  /\ x_vals = <<>>
  /\ y_vals = <<>>
  /\ removed = <<>>
  /\ skipped = 0
  /\ exc = "none"

Init ==
  /\ \E g \in Graphs : heap = [graph |-> g, copy |-> EmptyGraph]
  /\ Locals0

---------------------------------------------------------------------------
\* simulate_attack(graph, strategy, remove_fraction)

\* An exception leaves the function.
Raise(e) == pc' = "raised" /\ exc' = e

\* G = graph.copy() up to the strategy branch: the copy, N, num_remove, the
\* empty result lists and node_order.
CallSimulateAttack(s, f) ==
  /\ pc = "idle"
  /\ heap' = [heap EXCEPT ![CopyRef] = heap["graph"]]
  /\ G' = CopyRef
  /\ fn' = "simulate_attack"
  /\ strategy' = s
  /\ remove_fraction' = f
  /\ N' = Len(heap["graph"].nodes)
  /\ num_remove' = IntOfProduct(f, Len(heap["graph"].nodes))
  /\ x_vals' = <<>>
  /\ y_vals' = <<>>
  /\ i' = 0
  /\ IF s = "random"
       THEN IF num_remove' > N'
              THEN node_order' = <<>> /\ Raise("ValueError")
              ELSE /\ node_order' \in RandomSamples(heap["graph"], num_remove')
                   /\ pc' = "loop"
                   /\ exc' = "none"
       ELSE IF s = "targeted"
              THEN /\ node_order' = TargetedOrder(heap["graph"], num_remove')
                   /\ pc' = "loop"
                   /\ exc' = "none"
              ELSE node_order' = <<>> /\ Raise("ValueError")
  /\ UNCHANGED <<ascending, E, sorted_edges, removed, skipped>>

\* One iteration of the for loop: remove node_order[i], measure, append.
StepSimulateAttack ==
  /\ pc = "loop"
  /\ fn = "simulate_attack"
  /\ i < num_remove
  /\ IF i + 1 > Len(node_order)
       THEN /\ Raise("IndexError")
            /\ UNCHANGED <<heap, i, x_vals, y_vals, removed>>
       ELSE IF ~HasNode(heap[G], node_order[i + 1])
              THEN /\ Raise("NetworkXError")
                   /\ UNCHANGED <<heap, i, x_vals, y_vals, removed>>
              ELSE /\ heap' = [heap EXCEPT ![G] = RemoveNode(heap[G], node_order[i + 1])]
                   /\ removed' = Append(removed, node_order[i + 1])
                   /\ IF N = 0
                        THEN /\ Raise("ZeroDivisionError")
                             /\ UNCHANGED <<i, x_vals, y_vals>>
                        ELSE /\ x_vals' = Append(x_vals, FractionRemoved(i, N))
                             /\ y_vals' = Append(y_vals,
                                    FractionRemaining(LccOfNodes(heap'[G]), N))
                             /\ i' = i + 1
                             /\ UNCHANGED <<pc, exc>>
  /\ UNCHANGED <<G, fn, strategy, ascending, remove_fraction, N, E, num_remove,
                 node_order, sorted_edges, skipped>>

\* return x_vals, y_vals
ReturnSimulateAttack ==
  /\ pc = "loop"
  /\ fn = "simulate_attack"
  /\ ~(i < num_remove)
  /\ pc' = "returned"
  /\ UNCHANGED <<heap, G, fn, strategy, ascending, remove_fraction, N, E,
                 num_remove, node_order, sorted_edges, i, x_vals, y_vals,
                 removed, skipped, exc>>

---------------------------------------------------------------------------
\* edge_overlap_removal(graph, remove_fraction, ascending)

\* G = graph.copy() up to sorted_edges: the copy, N, E, num_remove, the empty
\* result lists, the overlap scores and their sorting.
CallEdgeOverlapRemoval(f, asc) ==
  /\ pc = "idle"
  /\ heap' = [heap EXCEPT ![CopyRef] = heap["graph"]]
  /\ G' = CopyRef
  /\ fn' = "edge_overlap_removal"
  /\ ascending' = asc
  /\ remove_fraction' = f
  /\ N' = Len(heap["graph"].nodes)
  /\ E' = Len(heap["graph"].edges)
  /\ num_remove' = IntOfProduct(f, Len(heap["graph"].edges))
  /\ x_vals' = <<>>
  /\ y_vals' = <<>>
  /\ i' = 0
  /\ sorted_edges' = SortedEdges(heap["graph"], asc)
  /\ pc' = "loop"
  /\ UNCHANGED <<strategy, node_order, removed, skipped, exc>>

\* One iteration of the for loop: remove sorted_edges[i][0] if the graph has
\* it, measure, append.
StepEdgeOverlapRemoval ==
  /\ pc = "loop"
  /\ fn = "edge_overlap_removal"
  /\ i < num_remove
  /\ i < Len(sorted_edges)
  /\ LET edge == sorted_edges[i + 1][1]
         has == HasEdge(heap[G], edge[1], edge[2])
     IN /\ heap' = [heap EXCEPT ![G] =
                      IF has THEN RemoveEdge(heap[G], edge[1], edge[2]) ELSE heap[G]]
        /\ removed' = IF has THEN Append(removed, edge) ELSE removed
        /\ skipped' = IF has THEN skipped ELSE skipped + 1
  /\ IF Len(heap'[G].nodes) = 0
       THEN /\ Raise("NetworkXPointlessConcept")
            /\ UNCHANGED <<i, x_vals, y_vals>>
       ELSE IF E = 0 \/ N = 0
              THEN /\ Raise("ZeroDivisionError")
                   /\ UNCHANGED <<i, x_vals, y_vals>>
              ELSE /\ x_vals' = Append(x_vals, FractionRemoved(i, E))
                   /\ y_vals' = Append(y_vals,
                          FractionRemaining(LccOfEdges(heap'[G]), N))
                   /\ i' = i + 1
                   /\ UNCHANGED <<pc, exc>>
  /\ UNCHANGED <<G, fn, strategy, ascending, remove_fraction, N, E, num_remove,
                 node_order, sorted_edges>>

\* The loop ends (range exhausted, or the break) and the function returns.
ReturnEdgeOverlapRemoval ==
  /\ pc = "loop"
  /\ fn = "edge_overlap_removal"
  /\ ~(i < num_remove /\ i < Len(sorted_edges))
  /\ pc' = "returned"
  /\ UNCHANGED <<heap, G, fn, strategy, ascending, remove_fraction, N, E,
                 num_remove, node_order, sorted_edges, i, x_vals, y_vals,
                 removed, skipped, exc>>

---------------------------------------------------------------------------
\* The caller

\* The caller takes the result (or the exception); the call's locals and the
\* copy are dropped.
Finish ==
  /\ pc \in {"returned", "raised"}
  /\ heap' = [heap EXCEPT !["copy"] = EmptyGraph]
  /\ G' = "none"
  /\ pc' = "idle"
  /\ fn' = "none"
  /\ strategy' = "none"
  /\ ascending' = TRUE
  /\ remove_fraction' = <<1, 1>>
  /\ N' = 0
  /\ E' = 0
  /\ num_remove' = 0
  /\ node_order' = <<>>
  /\ sorted_edges' = <<>>
  /\ i' = 0
  /\ x_vals' = <<>>
  /\ y_vals' = <<>>
  /\ removed' = <<>>
  /\ skipped' = 0
  /\ exc' = "none"

Next ==
  \/ \E s \in Strategies, f \in RemoveFractions : CallSimulateAttack(s, f)
  \/ StepSimulateAttack
  \/ ReturnSimulateAttack
  \/ \E f \in RemoveFractions, asc \in BOOLEAN : CallEdgeOverlapRemoval(f, asc)
  \/ StepEdgeOverlapRemoval
  \/ ReturnEdgeOverlapRemoval
  \/ Finish

Spec == Init /\ [][Next]_vars

---------------------------------------------------------------------------
\* The 5-cycle scenario: nodes A..E written 1..5, edges A-B, B-C, C-D, D-E, E-A.

CycleEdges == <<<<1, 2>>, <<2, 3>>, <<3, 4>>, <<4, 5>>, <<5, 1>>>>

CycleNodes == UNION {{e[1], e[2]} : e \in Range(CycleEdges)}

\* G.edges() of the cycle whose nodes iterate in the order nodes: every edge
\* from its earlier endpoint, by first and then second endpoint in node order.
CycleEdgeOrder(nodes) ==
  LET O == {IF Pos(nodes, e[1]) <= Pos(nodes, e[2]) THEN e ELSE <<e[2], e[1]>>
              : e \in Range(CycleEdges)}
      Lex(q, p) == \/ Pos(nodes, q[1]) < Pos(nodes, p[1])
                   \/ /\ q[1] = p[1]
                      /\ Pos(nodes, q[2]) < Pos(nodes, p[2])
      rank(p) == Cardinality({q \in O : Lex(q, p)}) + 1
  IN [k \in 1..Cardinality(O) |-> CHOOSE p \in O : rank(p) = k]

\* The cycle under every node order a graph can expose.
CycleGraphs == {[nodes |-> ns, edges |-> CycleEdgeOrder(ns)] : ns \in Perms(CycleNodes)}

InitCycle ==
  /\ \E g \in CycleGraphs : heap = [graph |-> g, copy |-> EmptyGraph]
  /\ Locals0

SpecCycle == InitCycle /\ [][Next]_vars

---------------------------------------------------------------------------
\* What the properties speak of

\* The caller's graph, which is the graph at the start of the run.
Graph0 == heap["graph"]

InRun == fn # "none"

NodeRun == fn = "simulate_attack"

EdgeRun == fn = "edge_overlap_removal"

\* The number of elements of the kind the running function removes.
ElementCount == IF NodeRun THEN Len(Graph0.nodes) ELSE Len(Graph0.edges)

\* floor(f * count), as the largest m with m <= f * count.
FloorOfProduct(f, count) ==
  CHOOSE m \in 0..count : m * f[2] <= f[1] * count /\ (m + 1) * f[2] > f[1] * count

\* S is a non-empty set of nodes of g that no cut separates.
ConnectedSet(g, S) ==
  /\ S # {}
  /\ \A T \in SUBSET S :
       (T # {} /\ T # S) =>
         \E u \in T, v \in S \ T :
           <<u, v>> \in Range(g.edges) \/ <<v, u>> \in Range(g.edges)

\* The size of the largest connected set of nodes of g, 0 without nodes.
LargestConnectedSize(g) ==
  LET sizes == {Cardinality(S) : S \in {T \in SUBSET NodeSet(g) : ConnectedSet(g, T)}}
  IN IF sizes = {} THEN 0 ELSE CHOOSE m \in sizes : \A k \in sizes : k <= m

Last(s) == s[Len(s)]

---------------------------------------------------------------------------
\* C1: in every run of simulate_attack and of edge_overlap_removal the
\* fraction_remaining values recorded so far are non-increasing: each value is
\* at most the one before it.
C1_NonIncreasing ==
  \A k \in 1..(Len(y_vals) - 1) : FracLeq(y_vals[k + 1], y_vals[k])

\* An edge run that returned three values, the last strictly below the first.
C1_Witness ==
  /\ pc = "returned"
  /\ EdgeRun
  /\ Len(y_vals) >= 3
  /\ FracLess(Last(y_vals), y_vals[1])

\* C2: with remove_fraction = 1 on a graph with a node, a node run that
\* returned ends on the value 0, and an edge run on a graph with an edge that
\* returned ends on a value of at least 1/N0.
C2_FinalValue ==
  (pc = "returned" /\ remove_fraction = <<1, 1>> /\ Len(Graph0.nodes) >= 1) =>
    /\ NodeRun => (y_vals # <<>> /\ Last(y_vals)[1] = 0)
    /\ (EdgeRun /\ Len(Graph0.edges) >= 1) =>
         (y_vals # <<>> /\ FracLeq(<<1, Len(Graph0.nodes)>>, Last(y_vals)))

\* A full edge run on a graph of several nodes that ended on exactly 1/N0.
C2_Witness ==
  /\ pc = "returned"
  /\ EdgeRun
  /\ remove_fraction = <<1, 1>>
  /\ Len(Graph0.nodes) >= 2
  /\ Len(Graph0.edges) >= 2
  /\ FracEq(Last(y_vals), <<1, Len(Graph0.nodes)>>)

C4_FractionOfPlan ==
  /\ \A k \in DOMAIN x_vals : FracEq(x_vals[k], <<k, num_remove>>)
  /\ \A k \in DOMAIN y_vals : y_vals[k][2] = Len(Graph0.nodes)
  /\ (y_vals # <<>>) => Last(y_vals)[1] = LargestConnectedSize(heap[G])
  /\ (pc = "returned" /\ x_vals # <<>>) => FracEq(Last(x_vals), <<1, 1>>)

\* C4 amended: the k-th recorded x value is k over the number of all nodes
\* (simulate_attack) or all edges (edge_overlap_removal) of the graph at the
\* start, whatever remove_fraction is; the y value recorded by a step is the
\* size of the largest component of the snapshot after that step over N0, the
\* node count at the start; a run that returns has recorded
\* floor(remove_fraction * element count) points, so its last x value is that
\* number over the element count, which is 1 when remove_fraction is 1.
C4_FractionOfTotal ==
  /\ \A k \in DOMAIN x_vals : x_vals[k] = <<k, ElementCount>>
  /\ \A k \in DOMAIN y_vals : y_vals[k][2] = Len(Graph0.nodes)
  /\ (y_vals # <<>>) => Last(y_vals)[1] = LargestConnectedSize(heap[G])
  /\ Len(x_vals) = Len(y_vals)
  /\ pc = "returned" =>
       /\ Len(x_vals) = FloorOfProduct(remove_fraction, ElementCount)
       /\ (remove_fraction = <<1, 1>> /\ x_vals # <<>>) => FracEq(Last(x_vals), <<1, 1>>)

\* A node run with remove_fraction 1/2 returned, its last x value below 1.
C4_Witness ==
  /\ pc = "returned"
  /\ NodeRun
  /\ remove_fraction = <<1, 2>>
  /\ x_vals # <<>>
  /\ FracLess(Last(x_vals), <<1, 1>>)
  /\ Last(y_vals)[1] >= 2

\* C5: during edge_overlap_removal the snapshot keeps the nodes of the graph
\* at the start, in number N0, after every step.
C5_NodeSetConstant ==
  EdgeRun =>
    /\ heap[G].nodes = Graph0.nodes
    /\ Len(heap[G].nodes) = N

\* An edge run that removed every edge of a graph and left several nodes.
C5_Witness ==
  /\ EdgeRun
  /\ i >= 2
  /\ heap[G].edges = <<>>
  /\ Len(heap[G].nodes) >= 2

\* The place of the edge with key key in the iteration order of g's edges.
EdgePos(g, key) ==
  CHOOSE k \in DOMAIN g.edges : EdgeKey(g.edges[k][1], g.edges[k][2]) = key

\* Node a is ranked before node b by degree in g, descending, ties by the
\* iteration order of g's nodes.
NodeRankedBefore(g, a, b) ==
  \/ Degree(g, a) > Degree(g, b)
  \/ /\ Degree(g, a) = Degree(g, b)
     /\ Pos(g.nodes, a) < Pos(g.nodes, b)

\* The edge with key a is ranked before the edge with key b by overlap in g,
\* ascending or descending, ties by the iteration order of g's edges.
EdgeRankedBefore(g, asc, a, b) ==
  LET oa == Overlap(g, a[1], a[2])
      ob == Overlap(g, b[1], b[2])
  IN \/ IF asc THEN FracLess(oa, ob) ELSE FracLess(ob, oa)
     \/ /\ FracEq(oa, ob)
        /\ EdgePos(g, a) < EdgePos(g, b)

\* The keys of the edges of g.
EdgeKeys(g) == {EdgeKey(e[1], e[2]) : e \in Range(g.edges)}

\* C6: the removal order is the static ranking of the graph at the start. In
\* a targeted simulate_attack, node_order is the first num_remove nodes of the
\* original nodes stably sorted by original degree, descending; in
\* edge_overlap_removal, sorted_edges is the original edges stably sorted by
\* original overlap in the direction asked, each with that overlap as score;
\* and the targets removed by the first i steps are the first i of that order.
C6_StaticRanking ==
  /\ (NodeRun /\ strategy = "targeted" /\ pc \in {"loop", "returned"}) =>
       /\ Len(node_order) = num_remove
       /\ IsInjective(node_order)
       /\ Range(node_order) \subseteq NodeSet(Graph0)
       /\ \A a, b \in DOMAIN node_order :
            a < b => NodeRankedBefore(Graph0, node_order[a], node_order[b])
       /\ \A a \in DOMAIN node_order :
            \A n \in NodeSet(Graph0) \ Range(node_order) :
              NodeRankedBefore(Graph0, node_order[a], n)
       /\ removed = SubSeq(node_order, 1, i)
  /\ EdgeRun =>
       /\ Len(sorted_edges) = Len(Graph0.edges)
       /\ {sorted_edges[k][1] : k \in DOMAIN sorted_edges} = EdgeKeys(Graph0)
       /\ \A k \in DOMAIN sorted_edges :
            sorted_edges[k][2] =
              Overlap(Graph0, sorted_edges[k][1][1], sorted_edges[k][1][2])
       /\ \A a, b \in DOMAIN sorted_edges :
            a < b => EdgeRankedBefore(Graph0, ascending,
                                      sorted_edges[a][1], sorted_edges[b][1])
       /\ removed = [k \in 1..i |-> sorted_edges[k][1]]

\* A descending edge run in mid-loop whose ranking has a tie and a strict
\* step, and in which an edge still to be removed has, in the snapshot as it
\* is now, an overlap other than the score it was ranked by.
C6_Witness ==
  /\ EdgeRun
  /\ pc = "loop"
  /\ ~ascending
  /\ i >= 1
  /\ i < num_remove
  /\ \E a, b \in DOMAIN sorted_edges :
       a # b /\ FracEq(sorted_edges[a][2], sorted_edges[b][2])
  /\ \E a, b \in DOMAIN sorted_edges : FracLess(sorted_edges[a][2], sorted_edges[b][2])
  /\ \E k \in (i + 1)..Len(sorted_edges) :
       ~FracEq(sorted_edges[k][2],
               Overlap(heap[G], sorted_edges[k][1][1], sorted_edges[k][1][2]))

\* The run the 5-cycle scenario is about.
CycleRun ==
  /\ NodeRun
  /\ strategy = "targeted"
  /\ remove_fraction = <<1, 1>>
  /\ Graph0 \in CycleGraphs

\* The first two nodes the cycle iterates are neighbours on it.
FirstTwoAdjacent ==
  <<Graph0.nodes[1], Graph0.nodes[2]>> \in Range(Graph0.edges)

\* C7 as stated: on the 5-cycle, targeted removal with remove_fraction 1 gives,
\* for every node order, 3/5 after two removals, at most 2/5 after three and
\* 0 after all five.
C7_CycleAsStated ==
  CycleRun =>
    /\ Len(y_vals) >= 2 => y_vals[2] = <<3, Len(Graph0.nodes)>>
    /\ Len(y_vals) >= 3 => y_vals[3][1] <= 2
    /\ pc = "returned" => (Len(y_vals) = Len(Graph0.nodes) /\ Last(y_vals)[1] = 0)

\* C7 amended: on the 5-cycle, targeted removal with remove_fraction 1 removes
\* the nodes in the order the graph iterates them; after two removals the
\* largest component has size 3 (0.6) when the first two nodes are neighbours
\* on the cycle and size 2 (0.4) when they are not; after three removals it
\* has size at most 2; after all five the value is 0.
C7_CycleAmended ==
  CycleRun =>
    /\ pc \in {"loop", "returned"}
    /\ node_order = Graph0.nodes
    /\ Len(y_vals) >= 2 =>
         y_vals[2] = <<IF FirstTwoAdjacent THEN 3 ELSE 2, Len(Graph0.nodes)>>
    /\ Len(y_vals) >= 3 => y_vals[3][1] <= 2
    /\ pc = "returned" => (Len(y_vals) = Len(Graph0.nodes) /\ Last(y_vals)[1] = 0)

\* The scenario run returned from a cycle whose first two nodes are not
\* neighbours, with 2/5 after the second removal.
C7_Witness ==
  /\ CycleRun
  /\ pc = "returned"
  /\ ~FirstTwoAdjacent
  /\ y_vals[2][1] = 2

\* C8: no step of a run changes the caller's graph, and a run starts on a
\* snapshot equal to the caller's graph, so every run starts from the full
\* graph.
C8_CallerGraphUnchanged ==
  [][/\ heap'["graph"] = heap["graph"]
     /\ (pc = "idle" /\ pc' # "idle") => heap'[G'] = heap["graph"]]_vars

\* A run returned after taking two or more elements out of its snapshot, the
\* caller's graph still having the N nodes and E edges of the start.
C8_Witness ==
  /\ pc = "returned"
  /\ EdgeRun
  /\ Len(removed) >= 2
  /\ heap[G] # Graph0
  /\ Len(Graph0.nodes) = N
  /\ Len(Graph0.edges) = E

\* C9: the targets removed so far are pairwise different (an edge is there
\* once, under one key) and are nodes, respectively edges, of the graph at the
\* start; a run that returns has removed floor(remove_fraction * element
\* count) targets and returns as many x values and as many y values.
C9_RemovedTargets ==
  /\ IsInjective(removed)
  /\ NodeRun => Range(removed) \subseteq NodeSet(Graph0)
  /\ EdgeRun =>
       /\ \A a, b \in DOMAIN removed :
            a # b => removed[a] # <<removed[b][2], removed[b][1]>>
       /\ \A r \in Range(removed) :
            <<r[1], r[2]>> \in Range(Graph0.edges) \/ <<r[2], r[1]>> \in Range(Graph0.edges)
  /\ pc = "returned" =>
       /\ Len(removed) = FloorOfProduct(remove_fraction, ElementCount)
       /\ Len(x_vals) = Len(removed)
       /\ Len(y_vals) = Len(removed)

\* An edge run returned having removed two edges or more, one of them held by
\* the graph in the direction opposite to its key.
C9_Witness ==
  /\ pc = "returned"
  /\ EdgeRun
  /\ Len(removed) >= 2
  /\ \E r \in Range(removed) :
       r[1] # r[2] /\ <<r[2], r[1]>> \in Range(Graph0.edges)

====
